---- MODULE Spec2Model ----
(***************************************************************************)
(* The utility_file_downloader resource of terraform-provider-utility:     *)
(* the four lifecycle handlers (Create, Read, Update, Delete) and the      *)
(* helper downloadFile, over a file system, a remote server and the state  *)
(* the framework persists for the resource.                                *)
(***************************************************************************)
EXTENDS Integers, Sequences, FiniteSets, TLC

\* ------------------------------------------------------------------ bounds

\* Longest response body (and file content) the model draws, in bytes.
MaxBodyLen == 1

\* ------------------------------------------------------------- the domains

\* Byte strings of length 0..MaxBodyLen over a one-letter alphabet.
Bodies == UNION {[1..n -> {1}] : n \in 0..MaxBodyLen}

URLs == {"http://h/a.bin", "http://h/b.bin"}

\* A URL http.NewRequest cannot parse.
BadURL == "%zz"

Paths == {"/tmp/out/a.bin", "/var/b.bin"}

\* filepath.Dir
Dir(path) == IF path = "/tmp/out/a.bin" THEN "/tmp/out" ELSE "/var"

\* The request options a configuration carries: the method ("" is the unset
\* method) and the types.Map of headers, its elements <<key, kind, value>>.
RequestOpts ==
    {[method |-> "", headers |-> {}],
     [method |-> "POST", headers |-> {<<"X-Token", "string", "t">>}]}

StatusOK == 200

StatusCodes == {200, 204, 404, 500}

\* resp.Status: the status line of a response.
StatusText(code) ==
    CASE code = 200 -> "200 OK"
      [] code = 204 -> "204 No Content"
      [] code = 404 -> "404 Not Found"
      [] code = 500 -> "500 Internal Server Error"
      [] OTHER -> "???"

\* strings.ToUpper on the method names the model draws.
ToUpper(m) ==
    CASE m = "get" -> "GET"
      [] m = "post" -> "POST"
      [] OTHER -> m

\* ------------------------------------------------------------- checksums

\* The hex digests are modelled as collision-free tagged values.
Sha1Hex(bs) == <<"sha1", bs>>

Sha256Hex(bs) == <<"sha256", bs>>

NoSums == [sha1Hex |-> <<>>, sha256Hex |-> <<>>]

genFileChecksums(bs) == [sha1Hex |-> Sha1Hex(bs), sha256Hex |-> Sha256Hex(bs)]

\* ------------------------------------------------------------ the records

\* fileResourceModel, with the framework's "no resource" as present = FALSE.
NoState ==
    [present |-> FALSE, url |-> "", filename |-> "", method |-> "",
     headers |-> {}, force_download |-> FALSE,
     id |-> <<>>, sha1 |-> <<>>, sha256 |-> <<>>]

\* The desired configurations the framework hands to Create and Update:
\* the computed attributes are unknown (empty) in a plan.
Plan(u, f, o, fd) ==
    [present |-> TRUE, url |-> u, filename |-> f, method |-> o.method,
     headers |-> o.headers, force_download |-> fd,
     id |-> <<>>, sha1 |-> <<>>, sha256 |-> <<>>]

Plans ==
    {Plan(u, f, o, fd) : u \in URLs, f \in Paths, o \in RequestOpts, fd \in BOOLEAN}
    \cup {Plan(BadURL, f, o, FALSE) : f \in {"/var/b.bin"}, o \in {[method |-> "", headers |-> {}]}}

NoFile == [exists |-> FALSE, data |-> <<>>]

File(bs) == [exists |-> TRUE, data |-> bs]

EmptyFS == [files |-> [p \in Paths |-> NoFile], dirs |-> {}]

NoErr == <<>>

\* What the environment does to one call: a fault at one step of the call,
\* the status the server answers with, the bytes a failing write leaves.
Faults == {"none", "transport", "mkdir", "create", "body", "write", "remove"}

DownloadEnvs ==
    {[fault |-> f, status |-> StatusOK, n |-> 0] :
        f \in {"none", "transport", "mkdir", "create", "body"}}
    \cup {[fault |-> "write", status |-> StatusOK, n |-> k] : k \in 0..(MaxBodyLen - 1)}
    \cup {[fault |-> "none", status |-> s, n |-> 0] : s \in StatusCodes \ {StatusOK}}

DeleteEnvs == {[fault |-> f, status |-> StatusOK, n |-> 0] : f \in {"none", "remove"}}

Min(a, b) == IF a < b THEN a ELSE b

Diag(sev, summary, detail) == [severity |-> sev, summary |-> summary, detail |-> detail]

\* --------------------------------------------------------------- the state

VARIABLES
    fs,        \* the file system: files by path, and the directories that exist
    server,    \* the body each URL serves
    tfstate,   \* the state the framework persists for the resource
    last,      \* the last lifecycle call: its request, diagnostics and I/O events
    procs,     \* concurrent calls, one frame per resource instance
    fs0        \* the file system as the concurrent calls found it

vars == <<fs, server, tfstate, last, procs, fs0>>

\* ----------------------------------------------------- one call, by steps

\* The request a call sends: http.NewRequest(method, url, nil) and its headers.
NoReq == [method |-> "", url |-> "", headers |-> {}]

\* The frame of one lifecycle call: the request (plan, prior state), the
\* locals of the handler and of downloadFile, and the response being built.
Frame(op, plan, state, env) ==
    [op |-> op, pc |-> "entry", plan |-> plan, state |-> state, env |-> env,
     method |-> "", url |-> "", path |-> "", headers |-> {},
     status |-> 0, body |-> <<>>, bs |-> <<>>, sums |-> NoSums, err |-> NoErr,
     diags |-> <<>>, events |-> <<>>, req |-> NoReq,
     resp |-> IF op = "Create" THEN NoState ELSE state]

\* method := "GET"; if !Method.IsNull() && Method != "" { method = ToUpper(Method) }
ResolveMethod(m) == IF m = "" THEN "GET" ELSE ToUpper(m)

\* headers[k] = strVal for every element that is a types.String
FlattenHeaders(elems) == {<<e[1], e[3]>> : e \in {x \in elems : x[2] = "string"}}

\* (changed: every call downloads to one fixed path)
WithArgsSharedPath(h, src) ==
    [h EXCEPT !.method = ResolveMethod(src.method), !.url = src.url,
              !.path = "/var/b.bin", !.headers = FlattenHeaders(src.headers),
              !.pc = "newreq"]

\* The arguments of downloadFile, from the plan (Create, Update) or the
\* state (Read).
WithArgs(h, src) ==
    [h EXCEPT !.method = ResolveMethod(src.method), !.url = src.url,
              !.path = src.filename, !.headers = FlattenHeaders(src.headers),
              !.pc = "newreq"]

Ev(h, e) == Append(h.events, e)

Fail(h, e) == [h EXCEPT !.err = e, !.pc = "dlreturn"]

\* (changed: the plan's force_download decides)
UpdateSkipsByPlan(plan, state) == ~plan.force_download /\ plan.url = state.url

\* Update's skip condition.
UpdateSkips(plan, state) == ~state.force_download /\ plan.url = state.url

\* (changed: the skip path sets the plan, with the digests of the state)
SkipResponsePlan(plan, state) ==
    [plan EXCEPT !.id = state.id, !.sha1 = state.sha1, !.sha256 = state.sha256]

\* The state Update's skip path sets.
SkipResponse(plan, state) == state

\* (changed: id is set from the SHA-256 digest)
WithSumsIdSha256(rec, sums) ==
    [rec EXCEPT !.id = sums.sha256Hex, !.sha1 = sums.sha1Hex, !.sha256 = sums.sha256Hex]

\* The state a successful Create or Update sets: the plan with the digests
\* (and Read: the prior state with them).
WithSums(rec, sums) ==
    [rec EXCEPT !.id = sums.sha1Hex, !.sha1 = sums.sha1Hex, !.sha256 = sums.sha256Hex]

\* Create, up to its call of downloadFile.
CreateEntry(h, fsys) == [h |-> WithArgs(h, h.plan), fs |-> fsys]

\* (changed: Read does not look for the file before it downloads)
ReadEntryNoStat(h, fsys) ==
    [h |-> [WithArgs(h, h.state) EXCEPT !.events = Ev(h, "stat")], fs |-> fsys]

\* Read, up to its call of downloadFile: os.Stat and the early return.
ReadEntry(h, fsys) ==
    IF ~fsys.files[h.state.filename].exists
    THEN [h |-> [h EXCEPT !.events = Ev(h, "stat"), !.resp = NoState, !.pc = "return"],
          fs |-> fsys]
    ELSE [h |-> [WithArgs(h, h.state) EXCEPT !.events = Ev(h, "stat")], fs |-> fsys]

\* (changed: Update downloads the plan's url into the prior state's file)
UpdateEntryOldFile(h, fsys) ==
    IF UpdateSkips(h.plan, h.state)
    THEN [h |-> [h EXCEPT !.diags = Append(h.diags,
                              Diag("warning", "same file", h.plan.url)),
                          !.resp = SkipResponse(h.plan, h.state), !.pc = "return"],
          fs |-> fsys]
    ELSE [h |-> [WithArgs(h, h.plan) EXCEPT !.path = h.state.filename], fs |-> fsys]

\* (changed: Update downloads with the arguments of the prior state)
UpdateEntryFromState(h, fsys) ==
    IF UpdateSkips(h.plan, h.state)
    THEN [h |-> [h EXCEPT !.diags = Append(h.diags,
                              Diag("warning", "same file", h.plan.url)),
                          !.resp = SkipResponse(h.plan, h.state), !.pc = "return"],
          fs |-> fsys]
    ELSE [h |-> WithArgs(h, h.state), fs |-> fsys]

\* Update, up to its call of downloadFile: the skip path returns early.
UpdateEntry(h, fsys) ==
    IF UpdateSkips(h.plan, h.state)
    THEN [h |-> [h EXCEPT !.diags = Append(h.diags,
                              Diag("warning", "same file", h.plan.url)),
                          !.resp = SkipResponse(h.plan, h.state), !.pc = "return"],
          fs |-> fsys]
    ELSE [h |-> WithArgs(h, h.plan), fs |-> fsys]

\* os.Remove fails on a file that is not there, or when the environment fails it.
RemoveFails(h, fsys) ==
    h.env.fault = "remove" \/ ~fsys.files[h.state.filename].exists

\* (changed: the error of os.Remove is reported)
DeleteStepSurfacing(h, fsys) ==
    IF RemoveFails(h, fsys)
    THEN [h |-> [h EXCEPT !.events = Ev(h, "remove failed"),
                          !.diags = Append(h.diags,
                              Diag("error", "Delete Failed", <<"remove error">>)),
                          !.pc = "return"],
          fs |-> fsys]
    ELSE [h |-> [h EXCEPT !.events = Ev(h, "remove"), !.pc = "return"],
          fs |-> [fsys EXCEPT !.files[h.state.filename] = NoFile]]

\* Delete: os.Remove(filename), its error dropped.
DeleteStep(h, fsys) ==
    IF RemoveFails(h, fsys)
    THEN [h |-> [h EXCEPT !.events = Ev(h, "remove failed"), !.pc = "return"],
          fs |-> fsys]
    ELSE [h |-> [h EXCEPT !.events = Ev(h, "remove"), !.pc = "return"],
          fs |-> [fsys EXCEPT !.files[h.state.filename] = NoFile]]

EntryStep(h, fsys) ==
    CASE h.op = "Create" -> CreateEntry(h, fsys)
      [] h.op = "Read" -> ReadEntry(h, fsys)
      [] h.op = "Update" -> UpdateEntry(h, fsys)
      [] h.op = "Delete" -> DeleteStep(h, fsys)

Request(h) == [method |-> h.method, url |-> h.url, headers |-> h.headers]

\* http.NewRequest(method, url, nil) and the header loop.
NewRequestStep(h, fsys) ==
    [h |-> IF h.url = BadURL THEN Fail(h, <<"parse error">>) ELSE [h EXCEPT !.pc = "do"],
     fs |-> fsys]

\* client.Do(req): a transport error, or the response's status and body stream.
DoStep(h, fsys, srv) ==
    [h |-> IF h.env.fault = "transport"
           THEN [Fail(h, <<"transport error">>) EXCEPT !.events = Ev(h, "http"),
                                                       !.req = Request(h)]
           ELSE [h EXCEPT !.events = Ev(h, "http"), !.req = Request(h),
                          !.status = h.env.status, !.body = srv[h.url],
                          !.pc = "status"],
     fs |-> fsys]

\* (changed: every status below 400 is taken for a success)
StatusAcceptedBelow400(code) == code < 400

\* The status test of downloadFile.
StatusAccepted(code) == code = StatusOK

StatusStep(h, fsys) ==
    [h |-> IF ~StatusAccepted(h.status)
           THEN Fail(h, <<"failed to download file: ", StatusText(h.status)>>)
           ELSE [h EXCEPT !.pc = "mkdir"],
     fs |-> fsys]

\* os.MkdirAll(filepath.Dir(path), 0o755)
MkdirStep(h, fsys) ==
    IF h.env.fault = "mkdir"
    THEN [h |-> [Fail(h, <<"mkdir error">>) EXCEPT !.events = Ev(h, "mkdir")],
          fs |-> fsys]
    ELSE [h |-> [h EXCEPT !.events = Ev(h, "mkdir"), !.pc = "create"],
          fs |-> [fsys EXCEPT !.dirs = @ \cup {Dir(h.path)}]]

\* (changed: the file is opened without being truncated)
OpenedFileKept(old) == File(old.data)

\* What os.Create leaves of a file: it exists and is empty.
OpenedFile(old) == File(<<>>)

\* os.Create(path)
CreateFileStep(h, fsys) ==
    IF h.env.fault = "create"
    THEN [h |-> [Fail(h, <<"create error">>) EXCEPT !.events = Ev(h, "create")],
          fs |-> fsys]
    ELSE [h |-> [h EXCEPT !.events = Ev(h, "create"), !.pc = "readall"],
          fs |-> [fsys EXCEPT !.files[h.path] = OpenedFile(@)]]

\* io.ReadAll(resp.Body)
ReadAllStep(h, fsys) ==
    [h |-> IF h.env.fault = "body"
           THEN [Fail(h, <<"unexpected EOF">>) EXCEPT !.events = Ev(h, "readall")]
           ELSE [h EXCEPT !.events = Ev(h, "readall"), !.bs = h.body, !.pc = "sum"],
     fs |-> fsys]

\* checksums := genFileChecksums(bs)
SumStep(h, fsys) ==
    [h |-> [h EXCEPT !.events = Ev(h, "sum"), !.sums = genFileChecksums(h.bs),
                     !.pc = "write"],
     fs |-> fsys]

\* (changed: the write stores nothing)
WriteAt0Nothing(old, bs) == old

\* A write of bs at offset 0 through an open handle: the bytes past them stay,
\* and a file unlinked since it was opened stays gone from its path.
WriteAt0(old, bs) ==
    IF old.exists THEN File(bs \o SubSeq(old.data, Len(bs) + 1, Len(old.data)))
    ELSE old

\* out.Write(bs); a failing write leaves the first bytes written.
WriteStep(h, fsys) ==
    IF h.env.fault = "write"
    THEN [h |-> [Fail(h, <<"write error">>) EXCEPT !.events = Ev(h, "write")],
          fs |-> [fsys EXCEPT !.files[h.path] =
                     WriteAt0(@, SubSeq(h.bs, 1, Min(h.env.n, Len(h.bs))))]]
    ELSE [h |-> [h EXCEPT !.events = Ev(h, "write"), !.pc = "dlreturn"],
          fs |-> [fsys EXCEPT !.files[h.path] = WriteAt0(@, h.bs)]]

\* One step of downloadFile, by program counter.
DownloadStep(h, fsys, srv) ==
    CASE h.pc = "newreq" -> NewRequestStep(h, fsys)
      [] h.pc = "do" -> DoStep(h, fsys, srv)
      [] h.pc = "status" -> StatusStep(h, fsys)
      [] h.pc = "mkdir" -> MkdirStep(h, fsys)
      [] h.pc = "create" -> CreateFileStep(h, fsys)
      [] h.pc = "readall" -> ReadAllStep(h, fsys)
      [] h.pc = "sum" -> SumStep(h, fsys)
      [] h.pc = "write" -> WriteStep(h, fsys)

\* (changed: Read never finds the content drifted)
DriftedNever(sums, state) == FALSE

\* (changed: the SHA-256 digest is compared with the stored id)
DriftedSha256(sums, state) == sums.sha256Hex /= state.id

\* Read's comparison of the fetched digest with the stored id.
Drifted(sums, state) == sums.sha1Hex /= state.id

\* (changed: a failed download still sets the state, without digests)
ExitStepSetsOnError(h, fsys) ==
    [h |-> IF h.err /= NoErr
           THEN [h EXCEPT !.diags = Append(h.diags,
                              Diag("error", "Download Failed", h.err)),
                          !.resp = IF h.op = "Read" THEN h.state ELSE h.plan,
                          !.pc = "return"]
           ELSE IF h.op = "Read"
           THEN IF Drifted(h.sums, h.state)
                THEN [h EXCEPT !.resp = NoState, !.pc = "return"]
                ELSE [h EXCEPT !.resp = WithSums(h.state, h.sums), !.pc = "return"]
           ELSE [h EXCEPT !.resp = WithSums(h.plan, h.sums), !.pc = "return"],
     fs |-> fsys]

\* The handler's code after downloadFile returns.
ExitStep(h, fsys) ==
    [h |-> IF h.err /= NoErr
           THEN [h EXCEPT !.diags = Append(h.diags,
                              Diag("error", "Download Failed", h.err)),
                          !.pc = "return"]
           ELSE IF h.op = "Read"
           THEN IF Drifted(h.sums, h.state)
                THEN [h EXCEPT !.resp = NoState, !.pc = "return"]
                ELSE [h EXCEPT !.resp = WithSums(h.state, h.sums), !.pc = "return"]
           ELSE [h EXCEPT !.resp = WithSums(h.plan, h.sums), !.pc = "return"],
     fs |-> fsys]

\* One step of a call.
HStep(h, fsys, srv) ==
    CASE h.pc = "entry" -> EntryStep(h, fsys)
      [] h.pc = "dlreturn" -> ExitStep(h, fsys)
      [] OTHER -> DownloadStep(h, fsys, srv)

\* A whole call: its steps in program order, to its return.
RECURSIVE Run(_, _, _)
Run(h, fsys, srv) ==
    IF h.pc = "return" THEN [h |-> h, fs |-> fsys]
    ELSE CHOOSE r \in {Run(s.h, s.fs, srv) : s \in {HStep(h, fsys, srv)}} : TRUE

\* What the framework persists when a handler returns: the response state,
\* and nothing for a resource whose Delete returned without an error.
HasError(diags) == \E i \in 1..Len(diags) : diags[i].severity = "error"

Persisted(h) ==
    IF h.op = "Delete" /\ ~HasError(h.diags) THEN NoState ELSE h.resp

\* The record of a finished call: the handler and the plan it was given, the
\* diagnostics it hands back, the I/O it did, in order, the request it sent
\* the status it was answered with (0: no answer) and the error downloadFile
\* returned.
Summary(h) ==
    [op |-> h.op, plan |-> h.plan, diags |-> h.diags, events |-> h.events,
     req |-> h.req, status |-> h.status, err |-> h.err]

OkEnv == [fault |-> "none", status |-> StatusOK, n |-> 0]

NoCall == Summary(Frame("none", NoState, NoState, OkEnv))

\* ------------------------------------------------------------ the actions

Call(op, plan, env) ==
    \E r \in {Run(Frame(op, plan, tfstate, env), fs, server)} :
        /\ fs' = r.fs
        /\ tfstate' = Persisted(r.h)
        /\ last' = Summary(r.h)
        /\ UNCHANGED <<server, procs, fs0>>

\* No call's response is waiting to be taken.
Idle == last.op = "none"

\* The framework calls Create for a resource it holds no state of, and the
\* other three for one it holds; the calls for one resource come one at a time.
CreateCall(plan, env) == Idle /\ ~tfstate.present /\ Call("Create", plan, env)

ReadCall(env) == Idle /\ tfstate.present /\ Call("Read", NoState, env)

UpdateCall(plan, env) == Idle /\ tfstate.present /\ Call("Update", plan, env)

DeleteCall(env) == Idle /\ tfstate.present /\ Call("Delete", NoState, env)

\* The framework takes the response of the call that returned.
Deliver ==
    /\ ~Idle
    /\ last' = NoCall
    /\ UNCHANGED <<fs, server, tfstate, procs, fs0>>

\* The environment acts on a call only from its request on: a call that
\* sends none meets no fault.
Sends(op, plan) ==
    CASE op = "Create" -> plan.url /= BadURL
      [] op = "Read" -> tfstate.present /\ fs.files[tfstate.filename].exists
      [] op = "Update" -> tfstate.present /\ ~UpdateSkips(plan, tfstate) /\ plan.url /= BadURL
      [] OTHER -> FALSE

EnvsOf(op, plan) == IF Sends(op, plan) THEN DownloadEnvs ELSE {OkEnv}

Create ==
    /\ Idle /\ ~tfstate.present
    /\ \E plan \in Plans : \E env \in EnvsOf("Create", plan) : CreateCall(plan, env)

Read ==
    /\ Idle /\ tfstate.present
    /\ \E env \in EnvsOf("Read", NoState) : ReadCall(env)

Update ==
    /\ Idle /\ tfstate.present
    /\ \E plan \in Plans : \E env \in EnvsOf("Update", plan) : UpdateCall(plan, env)

Delete ==
    /\ Idle /\ tfstate.present
    /\ \E env \in DeleteEnvs : DeleteCall(env)

\* The remote content behind a URL changes.
ServerChange ==
    /\ Idle
    /\ \E u \in URLs, b \in Bodies :
          /\ server[u] /= b
          /\ server' = [server EXCEPT ![u] = b]
    /\ UNCHANGED <<fs, tfstate, last, procs, fs0>>

\* Someone else rewrites an existing file.
ExternalModify ==
    /\ Idle
    /\ \E p \in Paths, b \in Bodies :
          /\ fs.files[p].exists
          /\ fs.files[p].data /= b
          /\ fs' = [fs EXCEPT !.files[p] = File(b)]
    /\ UNCHANGED <<server, tfstate, last, procs, fs0>>

\* Someone else removes an existing file.
ExternalDelete ==
    /\ Idle
    /\ \E p \in Paths :
          /\ fs.files[p].exists
          /\ fs' = [fs EXCEPT !.files[p] = NoFile]
    /\ UNCHANGED <<server, tfstate, last, procs, fs0>>

Init ==
    /\ fs = EmptyFS
    /\ server \in [URLs -> Bodies]
    /\ tfstate = NoState
    /\ last = NoCall
    /\ procs = <<>>
    /\ fs0 = EmptyFS

Next ==
    \/ Create
    \/ Read
    \/ Update
    \/ Delete
    \/ Deliver
    \/ ServerChange
    \/ ExternalModify
    \/ ExternalDelete

Spec == Init /\ [][Next]_vars

\* The same calls with nobody else touching the files: only the provider's
\* handlers write to disk, while the remote content may still change.
NextOwnFiles ==
    \/ Create
    \/ Read
    \/ Update
    \/ Delete
    \/ Deliver
    \/ ServerChange

SpecOwnFiles == Init /\ [][NextOwnFiles]_vars

\* ----------------------------------------- calls for two resource instances

\* The framework runs the calls for different resource instances in parallel
\* threads: each call advances by its own steps, one file system under both.
Insts == {1, 2}

\* What the URLs serve while the calls run.
ConcServer ==
    [u \in URLs |-> IF u = "http://h/a.bin" THEN <<>> ELSE [i \in 1..MaxBodyLen |-> 1]]

\* The file system the calls find: empty, or both files there.
ConcFS ==
    {EmptyFS,
     [files |-> [p \in Paths |-> File([i \in 1..MaxBodyLen |-> 1])],
      dirs |-> {Dir(p) : p \in Paths}]}

ConcOpts == [method |-> "", headers |-> {}]

\* The state of a resource that recorded body b from url u into file f.
StateOf(u, f, b) == WithSums(Plan(u, f, ConcOpts, FALSE), genFileChecksums(b))

ConcEnvs == {OkEnv, [fault |-> "body", status |-> StatusOK, n |-> 0]}

\* The calls an instance may be running, its file among fnames.
ConcCalls(fnames) ==
    {Frame("Create", Plan(u, f, ConcOpts, FALSE), NoState, env) :
        u \in URLs, f \in fnames, env \in ConcEnvs}
    \cup {Frame("Read", NoState, StateOf(u, f, b), env) :
        u \in URLs, f \in fnames, b \in Bodies, env \in ConcEnvs}
    \cup {Frame("Update", Plan(u, f, ConcOpts, FALSE), StateOf(v, f, <<>>), env) :
        u \in URLs, v \in URLs, f \in fnames, env \in ConcEnvs}
    \cup {Frame("Delete", NoState, StateOf("http://h/a.bin", f, <<>>), env) :
        f \in fnames, env \in DeleteEnvs}

InitConc ==
    /\ server = ConcServer
    /\ fs0 \in ConcFS
    /\ fs = fs0
    /\ tfstate = NoState
    /\ last = NoCall
    /\ \E c1 \in ConcCalls({"/tmp/out/a.bin"}), c2 \in ConcCalls(Paths) :
          procs = [i \in Insts |-> IF i = 1 THEN c1 ELSE c2]

\* The call of instance i takes its next step.
Step(i) ==
    /\ procs[i].pc /= "return"
    /\ \E s \in {HStep(procs[i], fs, server)} :
          /\ procs' = [procs EXCEPT ![i] = s.h]
          /\ fs' = s.fs
    /\ UNCHANGED <<server, tfstate, last, fs0>>

NextConc == \E i \in Insts : Step(i)

SpecConc == InitConc /\ [][NextConc]_vars

\* ------------------------------------------------------------- the claims

In(seq, e) == \E i \in 1..Len(seq) : seq[i] = e

CallOps == {"Create", "Read", "Update", "Delete"}

\* The step is a call of handler op: it returns in the primed state.
Returned(op) == Idle /\ last'.op = op

\* C1: drift detection. When the file at filename no longer holds the bytes
\* the state records (it was rewritten or removed behind the provider's back),
\* the next Read, its fetch answered 200 and nothing failing, removes the
\* resource from state.
C1_ReadDropsChangedFile ==
    [][(/\ Returned("Read")
        /\ ~HasError(last'.diags)
        /\ \/ ~fs.files[tfstate.filename].exists
           \/ Sha1Hex(fs.files[tfstate.filename].data) /= tfstate.id)
       => ~tfstate'.present]_vars

\* C2: whatever calls were made, a resource present in the persisted state
\* has id equal to sha1.
C2_IdEqualsSha1 == tfstate.present => tfstate.id = tfstate.sha1

\* An Update took the skip path and the resource is in state.
C2_Witness ==
    /\ last.op = "Update" /\ tfstate.present
    /\ last.diags /= <<>> /\ last.diags[1].summary = "same file"

\* C3: a Create, Read or Update whose request the server answers with a
\* status other than 200 reports an error diagnostic whose detail holds the
\* status line, and leaves the file system exactly as it was.
C3_Non200 ==
    [][(/\ Idle
        /\ last'.op \in {"Create", "Read", "Update"}
        /\ last'.status \notin {0, StatusOK})
       => /\ fs' = fs
          /\ \E i \in 1..Len(last'.diags) :
                /\ last'.diags[i].severity = "error"
                /\ In(last'.diags[i].detail, StatusText(last'.status))]_vars

\* An Update was answered 404 while the file it would have written exists.
C3_Witness ==
    /\ last.op = "Update" /\ last.status = 404
    /\ fs.files[last.plan.filename].exists

C5_ForcedUpdateFetches ==
    [][(/\ Returned("Update")
        /\ last'.plan.force_download
        /\ last'.plan.url = tfstate.url)
       => /\ In(last'.events, "http")
          /\ \A i \in 1..Len(last'.diags) : last'.diags[i].summary /= "same file"]_vars

\* The resource as a successful Create leaves it: the URL serves the bytes
\* the file holds and the state records the digests of.
Settled ==
    /\ tfstate.present
    /\ fs.files[tfstate.filename] = File(server[tfstate.url])
    /\ tfstate.id = Sha1Hex(server[tfstate.url])
    /\ tfstate.sha1 = Sha1Hex(server[tfstate.url])
    /\ tfstate.sha256 = Sha256Hex(server[tfstate.url])

\* C6: round trip. A successful Create leaves the resource settled; a Read
\* of a settled resource whose fetch succeeds keeps it in state with the same
\* id, sha1 and sha256 (the whole state and the file unchanged) and leaves it
\* settled, so that any number of such Reads does the same.
C6_RoundTrip ==
    [][/\ (last'.op = "Create" /\ ~HasError(last'.diags)) => Settled'
       /\ (Settled /\ Returned("Read") /\ ~HasError(last'.diags))
          => (tfstate' = tfstate /\ fs' = fs /\ Settled')]_vars

\* A Read fetched, rewrote the file and kept the settled resource.
C6_Witness ==
    /\ last.op = "Read" /\ last.diags = <<>> /\ In(last.events, "write")
    /\ Settled

\* C7: a Create that succeeds persists the plan with sha1 and sha256 the
\* digests of the body B the URL serves and id = sha1; the file at filename
\* then holds exactly B and its parent directory exists.
C7_CreateOK ==
    [][(Returned("Create") /\ ~HasError(last'.diags))
       => /\ last'.status = StatusOK
          /\ tfstate' = [last'.plan EXCEPT
                            !.id = Sha1Hex(server[last'.plan.url]),
                            !.sha1 = Sha1Hex(server[last'.plan.url]),
                            !.sha256 = Sha256Hex(server[last'.plan.url])]
          /\ fs'.files[last'.plan.filename] = File(server[last'.plan.url])
          /\ Dir(last'.plan.filename) \in fs'.dirs]_vars

\* A Create succeeded with the empty body.
C7_Witness ==
    /\ last.op = "Create" /\ last.diags = <<>> /\ tfstate.present
    /\ fs.files[tfstate.filename] = File(<<>>)
    /\ tfstate.sha1 = Sha1Hex(<<>>)

\* C9: in a call that fetches, the file is created and written only after
\* the whole body has been read, and the checksums are computed only after
\* the write.
C9_FetchWriteHash ==
    \A i, j \in 1..Len(last.events) :
        /\ (last.events[i] \in {"create", "write"} /\ last.events[j] = "readall") => j < i
        /\ (last.events[i] = "sum" /\ last.events[j] = "write") => j < i

\* C10: Delete hands back no diagnostic, sends no request, leaves every other
\* file and the directories as they were, and removes the file at the state's
\* filename unless the removal fails.
C10_Delete ==
    [][Returned("Delete")
       => /\ last'.diags = <<>>
          /\ last'.req = NoReq /\ ~In(last'.events, "http")
          /\ \A p \in Paths \ {tfstate.filename} : fs'.files[p] = fs.files[p]
          /\ fs'.dirs = fs.dirs
          /\ In(last'.events, "remove") => ~fs'.files[tfstate.filename].exists
          /\ In(last'.events, "remove failed")
                => fs'.files[tfstate.filename] = fs.files[tfstate.filename]
          /\ (fs.files[tfstate.filename].exists /\ ~fs'.files[tfstate.filename].exists)
                \/ In(last'.events, "remove failed")]_vars

\* A Delete's removal failed on a file that is still there.
C10_Witness ==
    /\ last.op = "Delete" /\ In(last.events, "remove failed")
    /\ \E p \in Paths : fs.files[p].exists

\* The file a call is for.
Dest(h) == IF h.op \in {"Create", "Update"} THEN h.plan.filename ELSE h.state.filename

\* The same call run alone, from the file system both calls found.
Alone(h) == Run(Frame(h.op, h.plan, h.state, h.env), fs0, server)

\* The call of instance i ended as it would have alone: the same state to
\* persist, the same diagnostics, the same content of its file.
SameAsAlone(i) ==
    \E a \in {Alone(procs[i])} :
        /\ Persisted(procs[i]) = Persisted(a.h)
        /\ procs[i].diags = a.h.diags
        /\ fs.files[Dest(procs[i])] = a.fs.files[Dest(procs[i])]

AllReturned == \A i \in Insts : procs[i].pc = "return"

\* C8 as claimed: whatever two calls for different resource instances run in
\* parallel, and however their steps interleave, each ends as it would have
\* alone.
C8_ConcurrentAsAlone == AllReturned => \A i \in Insts : SameAsAlone(i)

\* C8, amended: two calls for different resource instances whose files differ
\* end, however their steps interleave, each as it would have alone.
C8_DisjointAsAlone ==
    (AllReturned /\ Dest(procs[1]) /= Dest(procs[2]))
        => \A i \in Insts : SameAsAlone(i)

\* Two calls for different files both fetched and wrote, and returned.
C8_Witness ==
    /\ AllReturned
    /\ Dest(procs[1]) /= Dest(procs[2])
    /\ \A i \in Insts : In(procs[i].events, "write")

\* C11: a Read that finds no file at the state's filename removes the
\* resource from state, sends no request, leaves the file system as it was
\* (no file is created) and hands back no diagnostic.
C11_ReadMissingFile ==
    [][(Returned("Read") /\ ~fs.files[tfstate.filename].exists)
       => /\ ~tfstate'.present
          /\ last'.req = NoReq /\ ~In(last'.events, "http")
          /\ fs' = fs
          /\ last'.diags = <<>>]_vars

\* A Read returned right after its stat and the resource left the state,
\* another file being on disk.
C11_Witness ==
    /\ last.op = "Read" /\ last.events = <<"stat">> /\ ~tfstate.present
    /\ \E p \in Paths : fs.files[p].exists

\* C12: a Read that finds the file, whose download succeeds, and that fetched
\* content whose SHA-1 differs from the stored id removes the resource from
\* state (no new digests are persisted) and hands back no diagnostic.
C12_RemoteDrift ==
    [][(/\ Returned("Read")
        /\ fs.files[tfstate.filename].exists
        /\ last'.err = NoErr
        /\ Sha1Hex(server[tfstate.url]) /= tfstate.id)
       => /\ ~tfstate'.present
          /\ last'.diags = <<>>]_vars

\* A Read downloaded, wrote the new content and dropped the resource.
C12_Witness ==
    /\ last.op = "Read" /\ In(last.events, "write") /\ last.err = NoErr
    /\ last.diags = <<>> /\ ~tfstate.present

\* The number of requests a call sent.
Requests(events) == Cardinality({i \in 1..Len(events) : events[i] = "http"})

\* C13: a Create, Read or Update whose downloadFile fails, at whatever step,
\* hands back exactly one diagnostic, an error with summary "Download Failed"
\* and the failure's message, and the persisted state stays what it was
\* (nothing for Create); the call sent at most one request.
C13_FailureKeepsState ==
    [][(/\ Idle
        /\ last'.op \in {"Create", "Read", "Update"}
        /\ last'.err /= NoErr)
       => /\ Len(last'.diags) = 1
          /\ last'.diags[1] = Diag("error", "Download Failed", last'.err)
          /\ tfstate' = tfstate
          /\ Requests(last'.events) <= 1]_vars

\* An Update to other values failed while writing, the resource in state.
C13_Witness ==
    /\ last.op = "Update" /\ last.err = <<"write error">>
    /\ tfstate.present
    /\ last.plan.filename /= tfstate.filename

\* The state a call persists when it downloads the plan's url and succeeds.
PlanFetched(plan) == WithSums(plan, genFileChecksums(server[plan.url]))

\* C14: an Update whose plan has another url than the state, or whose state
\* has force_download set, does what a Create of the same plan would: when it
\* sends a request it is the plan's (method, url, headers), the events are
\* those of a download, and on success the file at the plan's filename holds
\* the fetched body and the persisted state is the plan with id, sha1 and
\* sha256 of that body.
C14_UpdateAsCreate ==
    [][(/\ Returned("Update")
        /\ (last'.plan.url /= tfstate.url \/ tfstate.force_download))
       => /\ \E env \in DownloadEnvs :
                \E c \in {Run(Frame("Create", last'.plan, NoState, env), fs, server)} :
                   /\ c.fs = fs'
                   /\ c.h.events = last'.events
                   /\ c.h.req = last'.req
                   /\ c.h.diags = last'.diags
                   /\ (c.h.err = NoErr) => (tfstate' = Persisted(c.h))
          /\ In(last'.events, "http")
                => last'.req = [method |-> ResolveMethod(last'.plan.method),
                                url |-> last'.plan.url,
                                headers |-> FlattenHeaders(last'.plan.headers)]
          /\ (last'.err = NoErr)
                => /\ last'.events = <<"http", "mkdir", "create", "readall", "sum", "write">>
                   /\ tfstate' = PlanFetched(last'.plan)
                   /\ fs'.files[last'.plan.filename] = File(server[last'.plan.url])]_vars

\* An Update downloaded a non-empty body with a POST request and persisted
\* its plan with the digests of that body.
C14_Witness ==
    /\ last.op = "Update" /\ last.err = NoErr /\ In(last.events, "write")
    /\ tfstate = PlanFetched(last.plan)
    /\ last.req.method = "POST"
    /\ server[tfstate.url] /= <<>>

\* C15: with no one but the handlers touching the files, whatever calls were
\* made and whichever of them failed, a resource present in the persisted
\* state has its file on disk, the SHA-1 of the file's content being its id.
C15_StateMatchesFile ==
    tfstate.present
        => /\ fs.files[tfstate.filename].exists
           /\ Sha1Hex(fs.files[tfstate.filename].data) = tfstate.id

\* C16 as claimed: a Read that finds the file and whose request is answered
\* 200 with the body read in full leaves the file holding the fetched bytes.
C16_ReadRewrites ==
    [][(/\ Returned("Read")
        /\ fs.files[tfstate.filename].exists
        /\ last'.status = StatusOK
        /\ In(last'.events, "readall")
        /\ last'.err /= <<"unexpected EOF">>)
       => fs'.files[tfstate.filename] = File(server[tfstate.url])]_vars

\* C16, amended: a Read that finds the file and whose download succeeds
\* (answered 200, the body read in full and written without error) leaves
\* the file holding the fetched bytes, the write coming before the return to
\* the comparison, whether or not the resource is kept; when the fetched
\* content has drifted the resource leaves the state and the file stays,
\* holding the new content.
C16_ReadRewritesOnSuccess ==
    [][(/\ Returned("Read")
        /\ fs.files[tfstate.filename].exists
        /\ last'.err = NoErr)
       => /\ last'.status = StatusOK
          /\ last'.events[Len(last'.events)] = "write"
          /\ fs'.files[tfstate.filename] = File(server[tfstate.url])
          /\ \A p \in Paths \ {tfstate.filename} : fs'.files[p] = fs.files[p]
          /\ (Sha1Hex(server[tfstate.url]) /= tfstate.id) <=> ~tfstate'.present]_vars

\* A Read found drift: the resource is gone from state and a file holds the
\* non-empty content the request fetched.
C16_Witness ==
    /\ last.op = "Read" /\ last.err = NoErr /\ ~tfstate.present
    /\ last.req.url \in URLs
    /\ server[last.req.url] /= <<>>
    /\ \E p \in Paths : fs.files[p] = File(server[last.req.url])

C18_OldFileStays ==
    [][/\ (/\ Returned("Update")
           /\ In(last'.events, "http")
           /\ last'.plan.filename /= tfstate.filename)
          => /\ fs'.files[tfstate.filename] = fs.files[tfstate.filename]
             /\ \A p \in Paths \ {last'.plan.filename} : fs'.files[p] = fs.files[p]
             /\ (last'.err = NoErr) => tfstate'.filename = last'.plan.filename
       /\ Returned("Delete")
          => \A p \in Paths \ {tfstate.filename} : fs'.files[p] = fs.files[p]]_vars

\* An Update moved the resource to another file; the old file is still on
\* disk with content other than the new file's.
C18_Witness ==
    /\ last.op = "Update" /\ last.err = NoErr /\ In(last.events, "write")
    /\ tfstate.filename = last.plan.filename
    /\ \E p \in Paths \ {tfstate.filename} :
          /\ fs.files[p].exists
          /\ fs.files[p] /= fs.files[tfstate.filename]

====
